---- MODULE Spec2Model ----
(***************************************************************************)
(* The ReAct workflow agent: the two-node graph of react_agent/graph.ts    *)
(* (callModel, tools, the router routeModelOutput) and the six tools of    *)
(* react_agent/tools.ts with their schemas and remote calls.               *)
(*                                                                         *)
(* The language model and the workflow store are the environment: the      *)
(* model answers an invocation with any batch of tool calls (or fails),    *)
(* the store answers each remote call with success, a transport error or   *)
(* a non-success status, in any completion order.                          *)
(***************************************************************************)
EXTENDS Integers, Sequences, FiniteSets, TLC

\* Total number of tool calls the language model issues in one session.
MaxRequests == 2

VARIABLES
  messages,   \* state.messages: the conversation (MessagesAnnotation)
  node,       \* the graph node the run is at
  invoking,   \* number of model.invoke calls that have not settled
  response,   \* callModel's awaited model.invoke: none, pending, settled
  tasks,      \* the tools node's per-call promises, <<>> outside the node
  calls,      \* every axios request issued so far, in issue order
  issued,     \* number of tool calls the model has produced so far
  modelInput  \* the messages handed to the model.invoke in progress

vars == <<messages, node, invoking, response, tasks, calls, issued, modelInput>>

-----------------------------------------------------------------------------
(* tools.ts: schemas *)

StatusEnum == {"pending", "completed"}

\* Variant: the schema without its description field.
itemSchema_TitleOnly(args) == {"title"} \subseteq DOMAIN args

\* z.object({title: z.string(), description: z.string()})
itemSchema(args) == {"title", "description"} \subseteq DOMAIN args

\* Variant: the array declared non-empty, z.array(z.string()).nonempty().
moveItemsSchema_NonEmpty(args) ==
  /\ {"itemIds", "targetType"} \subseteq DOMAIN args
  /\ Len(args.itemIds) > 0
  /\ args.targetType \in StatusEnum

\* z.object({itemIds: z.array(z.string()), targetType: z.enum([...])})
moveItemsSchema(args) ==
  /\ {"itemIds", "targetType"} \subseteq DOMAIN args
  /\ args.targetType \in StatusEnum

\* z.object({})
emptySchema(args) == TRUE

\* z.object({type: z.enum(["pending", "completed"])})
clearItemsSchema(args) ==
  /\ "type" \in DOMAIN args
  /\ args.type \in StatusEnum

\* The names of the tools of the TOOLS array, in its order.
TOOLS ==
  << "add_pending_item", "add_completed_item", "get_pending_items",
     "get_completed_items", "move_items", "clear_items" >>

ToolNames == {TOOLS[i] : i \in 1..Len(TOOLS)}

\* The schema each tool is declared with.
SchemaAccepts(name, args) ==
  CASE name \in {"add_pending_item", "add_completed_item"} -> itemSchema(args)
    [] name \in {"get_pending_items", "get_completed_items"} -> emptySchema(args)
    [] name = "move_items" -> moveItemsSchema(args)
    [] name = "clear_items" -> clearItemsSchema(args)

\* The keys each schema declares; a zod object strips every other key.
SchemaKeys(name) ==
  CASE name \in {"add_pending_item", "add_completed_item"} -> {"title", "description"}
    [] name \in {"get_pending_items", "get_completed_items"} -> {}
    [] name = "move_items" -> {"itemIds", "targetType"}
    [] name = "clear_items" -> {"type"}

\* The parsed input handed to the tool's function.
SchemaParse(name, args) ==
  [k \in (DOMAIN args) \cap SchemaKeys(name) |-> args[k]]

-----------------------------------------------------------------------------
(* tools.ts: the remote call each tool function issues *)

NoBody == << >>

addPendingItem(input) ==
  [method |-> "POST", path |-> "/pending", body |-> input]

\* Variant: the completed tool posts to the path of the pending tool.
addCompletedItem_PendingPath(input) ==
  [method |-> "POST", path |-> "/pending", body |-> input]

addCompletedItem(input) ==
  [method |-> "POST", path |-> "/completed", body |-> input]

getPendingItems(input) ==
  [method |-> "GET", path |-> "/pending", body |-> NoBody]

getCompletedItems(input) ==
  [method |-> "GET", path |-> "/completed", body |-> NoBody]

\* Variant: the PATCH goes to the path of the target status.
moveItems_TargetPath(input) ==
  [method |-> "PATCH", path |-> "/" \o input.targetType,
   body |-> [itemIds |-> input.itemIds, targetType |-> input.targetType]]

moveItems(input) ==
  LET itemIds == input.itemIds
      targetType == input.targetType
      sourceType == IF targetType = "completed" THEN "pending" ELSE "completed"
  IN [method |-> "PATCH", path |-> "/" \o sourceType,
      body |-> [itemIds |-> itemIds, targetType |-> targetType]]

\* Variant: the DELETE goes to the path of the other status.
clearItems_OtherPath(input) ==
  [method |-> "DELETE",
   path |-> "/" \o (IF input.type = "pending" THEN "completed" ELSE "pending"),
   body |-> NoBody]

clearItems(input) ==
  LET type == input.type
  IN [method |-> "DELETE", path |-> "/" \o type, body |-> NoBody]

\* The function of the tool registered under a name.
ToolFunc(name, input) ==
  CASE name = "add_pending_item" -> addPendingItem(input)
    [] name = "add_completed_item" -> addCompletedItem(input)
    [] name = "get_pending_items" -> getPendingItems(input)
    [] name = "get_completed_items" -> getCompletedItems(input)
    [] name = "move_items" -> moveItems(input)
    [] name = "clear_items" -> clearItems(input)

-----------------------------------------------------------------------------
(* The environment: what the language model may ask for *)

ItemArgs == [title |-> "t", description |-> "d"]

\* The (name, args) pairs the model draws its tool calls from: every tool
\* with arguments its schema accepts, and arguments it rejects, and a name
\* that is not registered.
RequestPool ==
  { [name |-> "add_pending_item", args |-> ItemArgs],
    [name |-> "add_pending_item", args |-> [title |-> "t"]],
    [name |-> "add_completed_item",
     args |-> [title |-> "t", description |-> "d", priority |-> "high"]],
    [name |-> "get_pending_items", args |-> << >>],
    [name |-> "get_completed_items", args |-> << >>],
    [name |-> "move_items",
     args |-> [itemIds |-> <<"a", "b">>, targetType |-> "completed"]],
    [name |-> "move_items",
     args |-> [itemIds |-> <<"a">>, targetType |-> "pending"]],
    [name |-> "move_items",
     args |-> [itemIds |-> << >>, targetType |-> "completed"]],
    [name |-> "move_items",
     args |-> [itemIds |-> <<"a">>, targetType |-> "archived"]],
    [name |-> "clear_items", args |-> [type |-> "pending"]],
    [name |-> "clear_items", args |-> [type |-> "completed"]],
    [name |-> "clear_items", args |-> [type |-> "archived"]],
    [name |-> "delete_item", args |-> [id |-> "a"]] }

\* The batches of at most n requests.
Batches(n) == UNION {[1..k -> RequestPool] : k \in 0..n}

\* The tool calls of a response: the batch with fresh correlation identifiers.
ToolCalls(batch, base) ==
  [i \in 1..Len(batch) |->
     [name |-> batch[i].name, args |-> batch[i].args, id |-> base + i]]

HumanMessage ==
  [role |-> "user", content |-> "request", tool_calls |-> << >>, tool_call_id |-> 0]

AIMessage(batch, base) ==
  [role |-> "assistant",
   content |-> IF Len(batch) = 0 THEN "answer" ELSE "",
   tool_calls |-> ToolCalls(batch, base),
   tool_call_id |-> 0]

ToolMessage(content, id) ==
  [role |-> "tool", content |-> content, tool_calls |-> << >>, tool_call_id |-> id]

\* The outcomes of one axios request.
Outcomes == {"ok", "network", "status"}

-----------------------------------------------------------------------------
(* graph.ts *)

\* Variant: a response with tool calls is routed back to callModel.
routeModelOutput_BackToModel(msgs) ==
  LET n == IF Len(msgs) = 0 THEN 0
           ELSE IF "tool_calls" \notin DOMAIN msgs[Len(msgs)] THEN 0
           ELSE Len(msgs[Len(msgs)].tool_calls)
  IN IF n # 0 \/ 0 > 0 THEN "callModel" ELSE "__end__"

\* Variant: the comparison reads 0 >= 0, so every response is routed to tools.
routeModelOutput_AlwaysTools(msgs) ==
  LET n == IF Len(msgs) = 0 THEN 0
           ELSE IF "tool_calls" \notin DOMAIN msgs[Len(msgs)] THEN 0
           ELSE Len(msgs[Len(msgs)].tool_calls)
  IN IF n # 0 \/ 0 >= 0 THEN "tools" ELSE "__end__"

\* Variant: the router looks for tool calls in every message, not the last.
routeModelOutput_AnyMessage(msgs) ==
  IF \E k \in 1..Len(msgs) :
       "tool_calls" \in DOMAIN msgs[k] /\ Len(msgs[k].tool_calls) # 0
    THEN "tools" ELSE "__end__"

\* routeModelOutput: "tools" when the last message carries tool calls
\* ((lastMessage?.tool_calls?.length || 0 > 0): a missing message or a
\* missing tool_calls field counts as no tool call).
routeModelOutput(msgs) ==
  LET n == IF Len(msgs) = 0 THEN 0
           ELSE IF "tool_calls" \notin DOMAIN msgs[Len(msgs)] THEN 0
           ELSE Len(msgs[Len(msgs)].tool_calls)
  IN IF n # 0 \/ 0 > 0 THEN "tools" ELSE "__end__"

\* configuration.systemPromptTemplate, as the text around its placeholder.
SystemPromptTemplate == <<"System time: ", "{system_time}">>

\* new Date().toISOString(): the instants an invocation may happen at.
Times == {"T1", "T2"}

\* String.prototype.replace with a string pattern: the first occurrence only.
RECURSIVE Replace(_, _, _)
Replace(template, pattern, value) ==
  IF Len(template) = 0 THEN << >>
  ELSE IF Head(template) = pattern THEN <<value>> \o Tail(template)
  ELSE <<Head(template)>> \o Replace(Tail(template), pattern, value)

RECURSIVE Text(_)
Text(parts) == IF Len(parts) = 0 THEN "" ELSE Head(parts) \o Text(Tail(parts))

\* The fixed instructions that follow the template in the system message.
Instructions == " You are a workflow management assistant"

SystemMessage(now) ==
  [role |-> "system",
   content |-> Text(Replace(SystemPromptTemplate, "{system_time}", now)) \o Instructions,
   tool_calls |-> << >>,
   tool_call_id |-> 0]

\* Variant: the directive is put after the conversation.
ModelInput_DirectiveLast(msgs, now) == msgs \o <<SystemMessage(now)>>

\* The argument of model.invoke: the system message, then state.messages.
ModelInput(msgs, now) == <<SystemMessage(now)>> \o msgs

Init ==
  /\ messages = <<HumanMessage>>
  /\ node = "__start__"
  /\ invoking = 0
  /\ response = [kind |-> "none", out |-> << >>]
  /\ tasks = << >>
  /\ calls = << >>
  /\ issued = 0
  /\ modelInput = << >>

\* addEdge("__start__", "callModel")
EnterGraph ==
  /\ node = "__start__"
  /\ node' = "callModel"
  /\ UNCHANGED <<messages, invoking, response, tasks, calls, issued, modelInput>>

\* Variant: callModel fetches the pending listing before it asks the model.
CallModelInvoke_Prefetch ==
  /\ node = "callModel"
  /\ response.kind = "none"
  /\ invoking' = invoking + 1
  /\ response' = [kind |-> "pending", out |-> << >>]
  /\ \E now \in Times : modelInput' = <<SystemMessage(now)>> \o messages
  /\ calls' = Append(calls, [id |-> 0, method |-> "GET", path |-> "/pending",
                             body |-> NoBody])
  /\ UNCHANGED <<messages, node, tasks, issued>>

\* callModel up to its await: model.invoke([system, ...state.messages])
CallModelInvoke ==
  /\ node = "callModel"
  /\ response.kind = "none"
  /\ invoking' = invoking + 1
  /\ response' = [kind |-> "pending", out |-> << >>]
  /\ \E now \in Times : modelInput' = ModelInput(messages, now)
  /\ UNCHANGED <<messages, node, tasks, calls, issued>>

\* The language model answers the invocation: a plain answer, or a batch of
\* tool calls, as many as the session's budget of requests still allows.
ModelResolves ==
  /\ response.kind = "pending"
  /\ \E batch \in Batches(MaxRequests - issued) :
       /\ response' = [kind |-> "resolved", out |-> <<AIMessage(batch, issued)>>]
       /\ issued' = issued + Len(batch)
  /\ invoking' = invoking - 1
  /\ modelInput' = << >>
  /\ UNCHANGED <<messages, node, tasks, calls>>

\* The invocation fails (the provider is down, the request is refused).
ModelRejects ==
  /\ response.kind = "pending"
  /\ response' = [kind |-> "rejected", out |-> << >>]
  /\ invoking' = invoking - 1
  /\ modelInput' = << >>
  /\ UNCHANGED <<messages, node, tasks, calls, issued>>

\* Variant: callModel catches the rejection and invokes the model again.
callModel_Retries ==
  /\ node = "callModel"
  /\ \/ /\ response.kind = "resolved"
        /\ messages' = messages \o response.out
        /\ node' = routeModelOutput(messages')
        /\ response' = [kind |-> "none", out |-> << >>]
     \/ /\ response.kind = "rejected"
        /\ response' = [kind |-> "none", out |-> << >>]
        /\ UNCHANGED <<messages, node>>
  /\ UNCHANGED <<invoking, tasks, calls, issued, modelInput>>

\* callModel after its await: it returns {messages: [response]}, the reducer
\* appends the response, and the conditional edge routes on the new state. A
\* rejection is not caught in callModel: it leaves the node and the run.
callModel ==
  /\ node = "callModel"
  /\ \/ /\ response.kind = "resolved"
        /\ messages' = messages \o response.out
        /\ node' = routeModelOutput(messages')
        /\ response' = [kind |-> "none", out |-> << >>]
     \/ /\ response.kind = "rejected"
        /\ node' = "__error__"
        /\ UNCHANGED <<messages, response>>
  /\ UNCHANGED <<invoking, tasks, calls, issued, modelInput>>

-----------------------------------------------------------------------------
(* graph.ts: the tools node, new ToolNode(TOOLS) *)

\* The batch the tools node works on: the tool calls of the last message.
Batch == messages[Len(messages)].tool_calls

ErrNotFound == "Error: Tool not found"
ErrSchema == "Error: Received tool input did not match expected schema"
ErrNetwork == "Error: Network Error"
ErrStatus == "Error: Request failed with status code"

\* The request a call issues once its tool is found and its input parsed.
RemoteCall(call) ==
  LET r == ToolFunc(call.name, SchemaParse(call.name, call.args))
  IN [id |-> call.id, method |-> r.method, path |-> r.path, body |-> r.body]

\* Variant: a name that is not registered yields an empty output, no error.
RunTool_SilentUnknown(call) ==
  IF call.name \notin ToolNames
    THEN [state |-> "done", content |-> ""]
  ELSE IF ~SchemaAccepts(call.name, call.args)
    THEN [state |-> "done", content |-> ErrSchema]
  ELSE [state |-> "inflight", content |-> ""]

\* Variant: a listing already fetched in this session is served from a cache.
RunTool_CachesGets(call) ==
  IF call.name \notin ToolNames
    THEN [state |-> "done", content |-> ErrNotFound]
  ELSE IF ~SchemaAccepts(call.name, call.args)
    THEN [state |-> "done", content |-> ErrSchema]
  ELSE IF \E k \in 1..Len(calls) :
            /\ calls[k].method = "GET"
            /\ RemoteCall(call).method = "GET"
            /\ calls[k].path = RemoteCall(call).path
    THEN [state |-> "done",
          content |-> RemoteCall(call).method \o " " \o RemoteCall(call).path]
  ELSE [state |-> "inflight", content |-> ""]

\* One call of the batch up to its first wait: the tool is looked up by name
\* in TOOLS, the input is parsed by the tool's schema, the function issues
\* its request. A failure before the request settles the call with an error.
RunTool(call) ==
  IF call.name \notin ToolNames
    THEN [state |-> "done", content |-> ErrNotFound]
  ELSE IF ~SchemaAccepts(call.name, call.args)
    THEN [state |-> "done", content |-> ErrSchema]
  ELSE [state |-> "inflight", content |-> ""]

\* The requests the calls of a batch issue, in batch order.
RECURSIVE IssuedCalls(_)
IssuedCalls(batch) ==
  IF Len(batch) = 0 THEN << >>
  ELSE LET call == Head(batch)
       IN (IF RunTool(call).state = "inflight" THEN <<RemoteCall(call)>> ELSE << >>)
            \o IssuedCalls(Tail(batch))

\* JSON.stringify(response.data): the store's answer to that request.
ResponseData(call) ==
  LET r == RemoteCall(call) IN r.method \o " " \o r.path

\* What a settled request leaves as the call's content: the tool function
\* returns the data, or axios throws and the node turns it into a message.
Settle(call, outcome) ==
  CASE outcome = "ok" -> ResponseData(call)
    [] outcome = "network" -> ErrNetwork
    [] outcome = "status" -> ErrStatus

\* The node starts one promise per tool call of the last message.
ToolsDispatch ==
  /\ node = "tools"
  /\ tasks = << >>
  /\ tasks' = [i \in 1..Len(Batch) |-> RunTool(Batch[i])]
  /\ calls' = calls \o IssuedCalls(Batch)
  /\ UNCHANGED <<messages, node, invoking, response, issued, modelInput>>

\* Variant: tool errors are not handled, a failed request rejects the run.
RemoteReturn_Rejects ==
  /\ node = "tools"
  /\ \E i \in DOMAIN tasks, outcome \in Outcomes :
       /\ tasks[i].state = "inflight"
       /\ IF outcome = "ok"
            THEN /\ tasks' = [tasks EXCEPT
                      ![i] = [state |-> "done", content |-> Settle(Batch[i], outcome)]]
                 /\ UNCHANGED node
            ELSE /\ tasks' = << >>
                 /\ node' = "__error__"
  /\ UNCHANGED <<messages, invoking, response, calls, issued, modelInput>>

\* Variant: a request that failed once is issued a second time.
RemoteReturn_RetriesOnce ==
  /\ node = "tools"
  /\ \E i \in DOMAIN tasks, outcome \in Outcomes :
       /\ tasks[i].state = "inflight"
       /\ IF outcome # "ok" /\
             Cardinality({k \in 1..Len(calls) : calls[k].id = Batch[i].id}) = 1
            THEN /\ calls' = Append(calls, RemoteCall(Batch[i]))
                 /\ UNCHANGED tasks
            ELSE /\ tasks' = [tasks EXCEPT
                      ![i] = [state |-> "done", content |-> Settle(Batch[i], outcome)]]
                 /\ UNCHANGED calls
  /\ UNCHANGED <<messages, node, invoking, response, issued, modelInput>>

\* One request of the batch settles, in any order among those in flight.
RemoteReturn ==
  /\ node = "tools"
  /\ \E i \in DOMAIN tasks, outcome \in Outcomes :
       /\ tasks[i].state = "inflight"
       /\ tasks' = [tasks EXCEPT
            ![i] = [state |-> "done", content |-> Settle(Batch[i], outcome)]]
  /\ UNCHANGED <<messages, node, invoking, response, calls, issued, modelInput>>

\* Variant: the node goes on with the first settled call, as Promise.race.
AllSettled_Any == \E i \in DOMAIN tasks : tasks[i].state = "done"

\* Promise.all has every output.
AllSettled == \A i \in DOMAIN tasks : tasks[i].state = "done"

\* Variant: every output carries the identifier of the first call.
ToolOutputs_FirstId ==
  [i \in 1..Len(tasks) |-> ToolMessage(tasks[i].content, Batch[1].id)]

\* Variant: the outputs are paired with the identifiers in opposite order.
ToolOutputs_Reversed ==
  [i \in 1..Len(tasks) |->
     ToolMessage(tasks[Len(tasks) + 1 - i].content, Batch[i].id)]

\* Variant: the calls that ended with an error leave no output.
ToolOutputs_OnlySuccess ==
  LET ok == SelectSeq([i \in 1..Len(tasks) |-> i],
                      LAMBDA i : tasks[i].content \notin
                        {ErrNotFound, ErrSchema, ErrNetwork, ErrStatus})
  IN [k \in 1..Len(ok) |-> ToolMessage(tasks[ok[k]].content, Batch[ok[k]].id)]

\* The outputs of the node: one ToolMessage per call, in batch order.
ToolOutputs ==
  [i \in 1..Len(tasks) |-> ToolMessage(tasks[i].content, Batch[i].id)]

\* Variant: the state's messages are replaced by the outputs, not extended.
ToolsJoin_Replaces ==
  /\ node = "tools"
  /\ tasks # << >>
  /\ AllSettled
  /\ messages' = ToolOutputs
  /\ node' = "callModel"
  /\ tasks' = << >>
  /\ UNCHANGED <<invoking, response, calls, issued, modelInput>>

\* The node returns its outputs, the reducer appends them, and
\* addEdge("tools", "callModel") takes the run back to callModel.
ToolsJoin ==
  /\ node = "tools"
  /\ tasks # << >>
  /\ AllSettled
  /\ messages' = messages \o ToolOutputs
  /\ node' = "callModel"
  /\ tasks' = << >>
  /\ UNCHANGED <<invoking, response, calls, issued, modelInput>>

Next ==
  \/ EnterGraph
  \/ CallModelInvoke
  \/ ModelResolves
  \/ ModelRejects
  \/ callModel
  \/ ToolsDispatch
  \/ RemoteReturn
  \/ ToolsJoin

Spec == Init /\ [][Next]_vars

\* The tools node under the scheduling of the event loop: a started node
\* dispatches its batch, a settled batch is returned, and (the premise of
\* the liveness properties) every remote call returns or fails.
FairSpec ==
  /\ Spec
  /\ WF_vars(ToolsDispatch)
  /\ WF_vars(RemoteReturn)
  /\ WF_vars(ToolsJoin)

\* The whole run under that scheduling, with a model whose invocations
\* settle; the budget of requests makes its last answer a plain one.
LiveSpec ==
  /\ FairSpec
  /\ WF_vars(EnterGraph)
  /\ WF_vars(CallModelInvoke)
  /\ WF_vars(ModelResolves \/ ModelRejects)
  /\ WF_vars(callModel)

-----------------------------------------------------------------------------
(* routeModelOutput on its own, over message lists of every shape *)

\* Longest message list the router is applied to.
MaxRouterLen == 3

\* Messages with and without a tool_calls field, with and without tool calls.
SampleMessages ==
  { [role |-> "user", content |-> "request"],
    [role |-> "tool", content |-> "GET /pending", tool_call_id |-> 1],
    [role |-> "assistant", content |-> "answer", tool_calls |-> << >>],
    [role |-> "assistant", content |-> "",
     tool_calls |-> <<[name |-> "get_pending_items", args |-> << >>, id |-> 1]>>],
    [role |-> "assistant", content |-> "",
     tool_calls |-> <<[name |-> "clear_items", args |-> [type |-> "pending"], id |-> 1],
                      [name |-> "delete_item", args |-> [id |-> "a"], id |-> 2]>>] }

RouterInit ==
  /\ messages \in UNION {[1..k -> SampleMessages] : k \in 0..MaxRouterLen}
  /\ node = "callModel"
  /\ invoking = 0
  /\ response = [kind |-> "none", out |-> << >>]
  /\ tasks = << >>
  /\ calls = << >>
  /\ issued = 0
  /\ modelInput = << >>

\* The conditional edge out of callModel applies the router to the state.
RouterStep ==
  /\ node = "callModel"
  /\ node' = routeModelOutput(messages)
  /\ UNCHANGED <<messages, invoking, response, tasks, calls, issued, modelInput>>

RouterSpec == RouterInit /\ [][RouterStep]_vars

-----------------------------------------------------------------------------
(* Vocabulary of the properties *)

\* The six operations of the registry and what each requires of its arguments.
Operations ==
  { "add_pending_item", "add_completed_item", "get_pending_items",
    "get_completed_items", "move_items", "clear_items" }

RequiredFields(name) ==
  CASE name \in {"add_pending_item", "add_completed_item"} -> {"title", "description"}
    [] name \in {"get_pending_items", "get_completed_items"} -> {}
    [] name = "move_items" -> {"itemIds", "targetType"}
    [] name = "clear_items" -> {"type"}

EnumField(name) ==
  CASE name = "move_items" -> {"targetType"}
    [] name = "clear_items" -> {"type"}
    [] OTHER -> {}

\* A request for a registered operation with a required field missing or an
\* enum value outside {pending, completed}.
FailsSchema(call) ==
  /\ call.name \in Operations
  /\ \/ ~(RequiredFields(call.name) \subseteq DOMAIN call.args)
     \/ \E f \in EnumField(call.name) \cap DOMAIN call.args :
          call.args[f] \notin {"pending", "completed"}

\* The positions of the assistant messages that carry Action Requests.
Turns ==
  {p \in 1..Len(messages) :
     messages[p].role = "assistant" /\ Len(messages[p].tool_calls) >= 1}

\* The tools step of the turn at p has appended its results.
Closed(p) == p < Len(messages)

\* The requests of the turn at p have been handed to the tools node.
Dispatched(p) == Closed(p) \/ (node = "tools" /\ tasks # << >>)

\* The positions of the tool-result messages that directly follow position p.
RECURSIVE LastResult(_)
LastResult(q) ==
  IF q < Len(messages) /\ messages[q + 1].role = "tool" THEN LastResult(q + 1) ELSE q

ResultPositions(p) == (p + 1)..LastResult(p)

\* The contents of the results of the turn at p that carry identifier id.
ResultContents(p, id) ==
  {messages[q].content : q \in {r \in ResultPositions(p) : messages[r].tool_call_id = id}}

\* The remote calls issued for the request with identifier id.
CallsOf(id) == {k \in 1..Len(calls) : calls[k].id = id}

\* The requests of the latest assistant message that have no result yet.
Unresolved ==
  LET P == {p \in 1..Len(messages) : messages[p].role = "assistant"}
  IN IF P = {} THEN {}
     ELSE LET p == CHOOSE x \in P : \A y \in P : y <= x
          IN {i \in 1..Len(messages[p].tool_calls) :
                ResultContents(p, messages[p].tool_calls[i].id) = {}}

FailureContents == {ErrNetwork, ErrStatus}

\* After a tools step the run is at callModel, unless the next model
\* invocation has failed.
BackAtModel ==
  messages[Len(messages)].role = "tool" =>
    \/ node = "callModel"
    \/ node = "__error__" /\ response.kind = "rejected"

-----------------------------------------------------------------------------
(* Properties *)

\* C1: once the tools step of a turn with N >= 1 requests has run, exactly N
\* tool results follow the assistant message, and requests and results match
\* one to one by correlation identifier; a turn without its results only
\* exists while the run is in the tools node.
C1_ResultsMatchRequests ==
  /\ \A p \in Turns :
       Closed(p) =>
         LET reqs == messages[p].tool_calls
             R == ResultPositions(p)
         IN /\ Cardinality(R) = Len(reqs)
            /\ \A i \in 1..Len(reqs) :
                 Cardinality({q \in R : messages[q].tool_call_id = reqs[i].id}) = 1
            /\ \A q \in R :
                 \E i \in 1..Len(reqs) : messages[q].tool_call_id = reqs[i].id
            /\ \A i, j \in 1..Len(reqs) : i # j => reqs[i].id # reqs[j].id
  /\ Len(messages) \in Turns => node = "tools"

C1_Witness ==
  /\ node = "callModel"
  /\ \E p \in Turns :
       /\ Len(messages[p].tool_calls) = 2
       /\ Len(messages) = p + 2
       /\ messages[p + 1].content = ErrNetwork

\* C2: at most one model invocation is outstanding, none is outstanding while
\* the tools node works, and the run is at callModel only at the start or
\* with a result for every request of the latest assistant message.
C2_OneInvocationAfterWholeBatch ==
  /\ invoking <= 1
  /\ invoking > 0 => node = "callModel" /\ tasks = << >> /\ Unresolved = {}
  /\ node = "callModel" =>
       /\ Unresolved = {}
       /\ Len(messages) = 1 \/ messages[Len(messages)].role = "tool"

C2_Witness ==
  /\ invoking = 1
  /\ Len(messages) = 4
  /\ messages[3].role = "tool"
  /\ messages[4].role = "tool"

\* C3: an assistant message without Action Requests is the last message of
\* the conversation and the run is then at the end, with no model invocation
\* and no tool call in progress; from the end no step changes anything, so
\* no model invocation, tools step or remote call follows.
C3_PlainAnswerEnds ==
  /\ [](\A p \in 1..Len(messages) :
          (messages[p].role = "assistant" /\ Len(messages[p].tool_calls) = 0) =>
            /\ p = Len(messages)
            /\ node = "__end__"
            /\ invoking = 0
            /\ response.kind = "none"
            /\ tasks = << >>)
  /\ [][node = "__end__" => UNCHANGED vars]_vars

C3_Witness ==
  /\ node = "__end__"
  /\ Len(messages) = 4
  /\ messages[4].content = "answer"
  /\ Len(calls) = 1

\* C4: whichever requests of a batch fail remotely, every request that issued
\* a remote call ends with one result that is either the store's answer to
\* its own call or the encoding of its own failure, the run is never failed
\* with a batch open, and after the batch the run is back at callModel.
C4_RemoteFailuresStayLocal ==
  [](/\ \A p \in Turns :
          Closed(p) =>
            \A i \in 1..Len(messages[p].tool_calls) :
              LET call == messages[p].tool_calls[i]
              IN CallsOf(call.id) # {} =>
                   /\ Cardinality(ResultContents(p, call.id)) = 1
                   /\ ResultContents(p, call.id) \subseteq
                        {ResponseData(call)} \cup FailureContents
     /\ node = "__error__" => Len(messages) \notin Turns
     /\ BackAtModel)

C4_Witness ==
  /\ node = "callModel"
  /\ \E p \in Turns :
       /\ Len(messages[p].tool_calls) = 2
       /\ Len(messages) = p + 2
       /\ messages[p + 1].content = ErrStatus
       /\ messages[p + 2].content = "GET /completed"

\* C5: a rejected model invocation fails the run in the next step, with the
\* conversation and the remote calls as they were, and nothing follows the
\* failure; the run is failed only by a rejected model invocation, and ended
\* only by a plain answer.
C5_ModelFailureEscalates ==
  /\ [][response.kind = "rejected" =>
          /\ node' = "__error__"
          /\ messages' = messages
          /\ calls' = calls
          /\ tasks' = << >>
          /\ invoking' = 0
          /\ response' = response]_vars
  /\ [][node = "__error__" => UNCHANGED vars]_vars
  /\ [](node = "__error__" => response.kind = "rejected" /\ tasks = << >>)
  /\ [](node = "__end__" =>
          /\ messages[Len(messages)].role = "assistant"
          /\ Len(messages[Len(messages)].tool_calls) = 0)

C5_Witness ==
  /\ node = "__error__"
  /\ Len(messages) = 4
  /\ messages[3].content = ErrSchema
  /\ messages[4].content = ErrNetwork

\* C6: a request for a registered operation whose arguments miss a required
\* field or carry an enum value outside {pending, completed} issues no remote
\* call, its task is settled at once with the schema error, its result in
\* the conversation is that error, and the loop goes on to callModel.
C6_InvalidArgumentsShortCircuit ==
  [](/\ \A p \in Turns : \A i \in 1..Len(messages[p].tool_calls) :
          LET call == messages[p].tool_calls[i]
          IN FailsSchema(call) =>
               /\ CallsOf(call.id) = {}
               /\ (~Closed(p) /\ tasks # << >>) =>
                    tasks[i] = [state |-> "done", content |-> ErrSchema]
               /\ Closed(p) => ResultContents(p, call.id) = {ErrSchema}
     /\ BackAtModel)

C6_Witness ==
  /\ node = "callModel"
  /\ response.kind = "pending"
  /\ Len(messages) = 3
  /\ messages[2].tool_calls[1].name = "add_pending_item"
  /\ "description" \notin DOMAIN messages[2].tool_calls[1].args
  /\ messages[3].content = ErrSchema
  /\ calls = << >>

\* C7 as claimed: a move_items request with an empty itemIds issues no remote
\* call and gets the schema error as its result.
C7_EmptyItemIdsRejected ==
  \A p \in Turns : \A i \in 1..Len(messages[p].tool_calls) :
    LET call == messages[p].tool_calls[i]
    IN (/\ call.name = "move_items"
        /\ "itemIds" \in DOMAIN call.args
        /\ call.args.itemIds = << >>) =>
         /\ CallsOf(call.id) = {}
         /\ Closed(p) => ResultContents(p, call.id) = {ErrSchema}

\* C7 as amended: a move_items request with an empty itemIds and a target
\* status of the enum passes the schema: once dispatched it has issued exactly
\* one PATCH, whose body carries the empty itemIds, and its result is never
\* the schema error.
C7_EmptyItemIdsAccepted ==
  \A p \in Turns : \A i \in 1..Len(messages[p].tool_calls) :
    LET call == messages[p].tool_calls[i]
    IN (/\ call.name = "move_items"
        /\ {"itemIds", "targetType"} \subseteq DOMAIN call.args
        /\ call.args.itemIds = << >>
        /\ call.args.targetType \in {"pending", "completed"}
        /\ Dispatched(p)) =>
         /\ Cardinality(CallsOf(call.id)) = 1
         /\ \A k \in CallsOf(call.id) :
              /\ calls[k].method = "PATCH"
              /\ calls[k].body.itemIds = << >>
         /\ ErrSchema \notin ResultContents(p, call.id)

C7_Witness ==
  /\ node = "callModel"
  /\ Len(messages) = 3
  /\ messages[2].tool_calls[1].name = "move_items"
  /\ messages[2].tool_calls[1].args.itemIds = << >>
  /\ Len(calls) = 1
  /\ calls[1].method = "PATCH"
  /\ messages[3].content = "PATCH /pending"

\* C8: a request whose name is not one of the six operations issues no remote
\* call and gets the unknown-operation error under its own identifier; the
\* well-formed requests beside it in the batch still issue their one call,
\* and the loop goes on to callModel.
C8_UnknownOperationStaysLocal ==
  [](/\ \A p \in Turns : \A i \in 1..Len(messages[p].tool_calls) :
          LET call == messages[p].tool_calls[i]
          IN call.name \notin Operations =>
               /\ CallsOf(call.id) = {}
               /\ (~Closed(p) /\ tasks # << >>) =>
                    tasks[i] = [state |-> "done", content |-> ErrNotFound]
               /\ Closed(p) => ResultContents(p, call.id) = {ErrNotFound}
               /\ \A j \in 1..Len(messages[p].tool_calls) :
                    LET other == messages[p].tool_calls[j]
                    IN (other.name \in Operations /\ ~FailsSchema(other) /\ Dispatched(p))
                         => Cardinality(CallsOf(other.id)) = 1
     /\ BackAtModel)

C8_Witness ==
  /\ node = "callModel"
  /\ Len(messages) = 4
  /\ messages[2].tool_calls[1].name = "delete_item"
  /\ messages[3].content = ErrNotFound
  /\ messages[3].tool_call_id = messages[2].tool_calls[1].id
  /\ messages[4].content = "GET /pending"
  /\ Len(calls) = 1

\* The path of the status opposite to a target status.
OppositePath(T) ==
  CASE T = "completed" -> "/pending"
    [] T = "pending" -> "/completed"

\* C9: a dispatched move_items request with a target status T of the enum has
\* issued exactly one remote call, a PATCH to the path of the status opposite
\* to T, never to the path of T, with body {itemIds, targetType} as requested.
C9_MovePatchesOppositePath ==
  \A p \in Turns : \A i \in 1..Len(messages[p].tool_calls) :
    LET call == messages[p].tool_calls[i]
    IN (/\ call.name = "move_items"
        /\ {"itemIds", "targetType"} \subseteq DOMAIN call.args
        /\ call.args.targetType \in {"pending", "completed"}
        /\ Dispatched(p)) =>
         /\ Cardinality(CallsOf(call.id)) = 1
         /\ \A k \in CallsOf(call.id) :
              /\ calls[k].method = "PATCH"
              /\ calls[k].path = OppositePath(call.args.targetType)
              /\ calls[k].path # "/" \o call.args.targetType
              /\ calls[k].body = [itemIds |-> call.args.itemIds,
                                  targetType |-> call.args.targetType]

C9_Witness ==
  /\ Len(calls) = 2
  /\ calls[1].method = "PATCH"
  /\ calls[1].path = "/pending"
  /\ calls[1].body = [itemIds |-> <<"a", "b">>, targetType |-> "completed"]
  /\ calls[2].method = "PATCH"
  /\ calls[2].path = "/completed"
  /\ calls[2].body.targetType = "pending"

\* C10: a dispatched clear_items request with a type X of the enum has issued
\* exactly one remote call, a DELETE to the path of X; and every DELETE ever
\* issued goes to the path of the type of the clear_items request it is for.
C10_ClearDeletesOwnPath ==
  [](/\ \A p \in Turns : \A i \in 1..Len(messages[p].tool_calls) :
          LET call == messages[p].tool_calls[i]
          IN (/\ call.name = "clear_items"
              /\ "type" \in DOMAIN call.args
              /\ call.args.type \in {"pending", "completed"}
              /\ Dispatched(p)) =>
               /\ Cardinality(CallsOf(call.id)) = 1
               /\ \A k \in CallsOf(call.id) :
                    /\ calls[k].method = "DELETE"
                    /\ calls[k].path = "/" \o call.args.type
     /\ \A k \in 1..Len(calls) :
          calls[k].method = "DELETE" =>
            \E p \in Turns : \E i \in 1..Len(messages[p].tool_calls) :
              LET call == messages[p].tool_calls[i]
              IN /\ call.id = calls[k].id
                 /\ call.name = "clear_items"
                 /\ calls[k].path = "/" \o call.args.type)

C10_Witness ==
  /\ Len(calls) = 2
  /\ calls[1].method = "DELETE"
  /\ calls[1].path = "/pending"
  /\ calls[2].method = "GET"
  /\ calls[2].path = "/completed"
  /\ node = "__end__"

\* C11: a dispatched add_pending_item request with title and description has
\* issued exactly one remote call, a POST to /pending, and a dispatched
\* add_completed_item request exactly one POST to /completed, each with the
\* request's title and description as body, never to the other path.
C11_CreatePostsOwnPath ==
  [](\A p \in Turns : \A i \in 1..Len(messages[p].tool_calls) :
       LET call == messages[p].tool_calls[i]
           own == IF call.name = "add_pending_item" THEN "/pending" ELSE "/completed"
       IN (/\ call.name \in {"add_pending_item", "add_completed_item"}
           /\ {"title", "description"} \subseteq DOMAIN call.args
           /\ Dispatched(p)) =>
            /\ Cardinality(CallsOf(call.id)) = 1
            /\ \A k \in CallsOf(call.id) :
                 /\ calls[k].method = "POST"
                 /\ calls[k].path = own
                 /\ calls[k].body = [title |-> call.args.title,
                                     description |-> call.args.description])

C11_Witness ==
  /\ Len(calls) = 2
  /\ calls[1].method = "POST"
  /\ calls[1].path = "/completed"
  /\ calls[1].body = [title |-> "t", description |-> "d"]
  /\ calls[2].method = "POST"
  /\ calls[2].path = "/pending"

\* C12: no request ever has more than one remote call, a request whose
\* result encodes a remote failure has exactly one, remote calls are issued
\* only when a batch is dispatched (never when a call settles), and a settled
\* call keeps its outcome until the batch is returned.
C12_NoRetry ==
  /\ [](\A p \in Turns : \A i \in 1..Len(messages[p].tool_calls) :
          LET call == messages[p].tool_calls[i]
          IN /\ Cardinality(CallsOf(call.id)) <= 1
             /\ (Closed(p) /\ ResultContents(p, call.id) \cap FailureContents # {})
                  => Cardinality(CallsOf(call.id)) = 1)
  /\ [][calls' # calls => tasks = << >>]_vars
  /\ [][\A i \in DOMAIN tasks :
          (tasks[i].state = "done" /\ tasks' # << >>) => tasks'[i] = tasks[i]]_vars

C12_Witness ==
  /\ node = "callModel"
  /\ Len(messages) = 3
  /\ messages[3].content = ErrStatus
  /\ Len(calls) = 1
  /\ calls[1].method = "DELETE"

\* The contents a request can end with: the error of its own lookup or
\* validation, or the store's answer to its own call, or its own failure.
ExpectedContents(call) ==
  IF call.name \notin Operations THEN {ErrNotFound}
  ELSE IF FailsSchema(call) THEN {ErrSchema}
  ELSE {ResponseData(call)} \cup FailureContents

\* C13: in whatever order the remote calls of a batch settle, the content
\* held for a call while the batch runs, and the content of the result that
\* carries a request's identifier once the batch is appended, is a content
\* of that request and not of another request of the batch.
C13_ResultsAttributedById ==
  [](\A p \in Turns : \A i \in 1..Len(messages[p].tool_calls) :
       LET call == messages[p].tool_calls[i]
       IN /\ Closed(p) =>
               /\ ResultContents(p, call.id) \subseteq ExpectedContents(call)
               /\ messages[p + i].tool_call_id = call.id
          /\ (~Closed(p) /\ tasks # << >> /\ tasks[i].state = "done") =>
               tasks[i].content \in ExpectedContents(call))

C13_Witness ==
  /\ node = "tools"
  /\ Len(tasks) = 2
  /\ Batch[1].name = "get_pending_items"
  /\ tasks[1].state = "inflight"
  /\ tasks[2] = [state |-> "done", content |-> "DELETE /completed"]

\* The listing requests of the conversation that have been dispatched.
Listings(name) ==
  UNION {{<<p, i>> : i \in {j \in 1..Len(messages[p].tool_calls) :
                              messages[p].tool_calls[j].name = name}} :
           p \in {q \in Turns : Dispatched(q)}}

\* C15: every dispatched get_pending_items request has issued its own GET to
\* /pending and every dispatched get_completed_items request its own GET to
\* /completed, so there are as many GETs to a path as requests for that
\* listing; a listing request issues nothing else; and two answered requests
\* for the same listing carry the same content.
C15_ListingsAreStateless ==
  [](\A name \in {"get_pending_items", "get_completed_items"} :
       LET path == IF name = "get_pending_items" THEN "/pending" ELSE "/completed"
           L == Listings(name)
       IN /\ \A x \in L :
               LET call == messages[x[1]].tool_calls[x[2]]
               IN /\ Cardinality(CallsOf(call.id)) = 1
                  /\ \A k \in CallsOf(call.id) :
                       /\ calls[k].method = "GET"
                       /\ calls[k].path = path
          /\ Cardinality({k \in 1..Len(calls) :
                            calls[k].method = "GET" /\ calls[k].path = path})
               = Cardinality(L)
          /\ Cardinality(
               UNION {ResultContents(x[1], messages[x[1]].tool_calls[x[2]].id) : x \in L}
                 \ FailureContents) <= 1)

C15_Witness ==
  /\ Len(messages) = 5
  /\ Len(messages[2].tool_calls) = 1
  /\ Len(messages[4].tool_calls) = 1
  /\ messages[2].tool_calls[1].name = "get_pending_items"
  /\ messages[4].tool_calls[1].name = "get_pending_items"
  /\ messages[3].content = "GET /pending"
  /\ messages[5].content = "GET /pending"
  /\ Len(calls) = 2
  /\ calls[1].method = "GET"
  /\ calls[2].method = "GET"

\* The system directive of an invocation at instant t.
Directive(t) == "System time: " \o t \o " You are a workflow management assistant"

\* C18: while a model invocation is in progress its input is one system
\* message, first, whose text is the directive with the instant of the
\* invocation in the place of the placeholder, followed by the conversation
\* as it is; and the conversation itself never holds a system message.
C18_DirectiveFirstNeverStored ==
  /\ [](response.kind = "pending" =>
          /\ Len(modelInput) = Len(messages) + 1
          /\ modelInput[1].role = "system"
          /\ \E t \in Times : modelInput[1].content = Directive(t)
          /\ \A k \in 1..Len(messages) : modelInput[k + 1] = messages[k]
          /\ Cardinality({k \in 1..Len(modelInput) : modelInput[k].role = "system"}) = 1)
  /\ [](response.kind # "pending" => modelInput = << >>)
  /\ [](\A k \in 1..Len(messages) : messages[k].role # "system")

C18_Witness ==
  /\ response.kind = "pending"
  /\ Len(messages) = 3
  /\ Len(modelInput) = 4
  /\ modelInput[1].content = Directive("T2")
  /\ modelInput[4].role = "tool"

\* C16: the router's answer is "tools" exactly when the message list has a
\* last message that carries one or more tool calls, and "__end__" in every
\* other case (empty list, no tool_calls field, empty tool_calls), whatever
\* the earlier messages are; so the batch is not empty when it says "tools".
C16_RouterReadsLastMessage ==
  node # "callModel" =>
    LET has == /\ Len(messages) > 0
               /\ "tool_calls" \in DOMAIN messages[Len(messages)]
               /\ Len(messages[Len(messages)].tool_calls) >= 1
    IN /\ node = "tools" <=> has
       /\ node = "__end__" <=> ~has
       /\ node = "tools" => Len(Batch) >= 1

C16_Witness ==
  /\ node = "__end__"
  /\ Len(messages) = 2
  /\ messages[1].role = "assistant"
  /\ Len(messages[1].tool_calls) = 2
  /\ messages[2].role = "tool"

\* C17: every step leaves each message of the conversation as and where it
\* is; a step that changes the conversation is a callModel step adding one
\* assistant message at the end, or a tools step adding the results of the
\* batch at the end.
C17_ConversationAppendOnly ==
  [][/\ Len(messages') >= Len(messages)
     /\ \A k \in 1..Len(messages) : messages'[k] = messages[k]
     /\ messages' # messages =>
          \/ /\ node = "callModel"
             /\ Len(messages') = Len(messages) + 1
             /\ messages'[Len(messages')].role = "assistant"
          \/ /\ node = "tools"
             /\ Len(messages') = Len(messages) + Len(Batch)
             /\ \A k \in (Len(messages) + 1)..Len(messages') :
                  messages'[k].role = "tool"]_vars

C17_Witness ==
  /\ node = "__error__"
  /\ Len(messages) = 5
  /\ messages[1] = HumanMessage
  /\ messages[2].role = "assistant"
  /\ messages[3].role = "tool"
  /\ messages[4].role = "assistant"
  /\ messages[5].role = "tool"

\* The correlation identifiers of the requests in the conversation.
RequestIds ==
  UNION {{messages[p].tool_calls[i].id : i \in 1..Len(messages[p].tool_calls)} :
           p \in 1..Len(messages)}

\* C20: remote calls are issued only by a step of the tools node, with no
\* model invocation in progress, each for a request of the last assistant
\* message; the calls issued are never more than the requests (one call at
\* most per request, none without a request), there is none before the
\* first response and none is added once the run has ended or failed.
C20_CallsComeFromRequests ==
  /\ [][calls' # calls =>
          /\ node = "tools"
          /\ invoking = 0
          /\ response.kind = "none"
          /\ messages[Len(messages)].role = "assistant"
          /\ Len(calls') > Len(calls)
          /\ \A k \in 1..Len(calls) : calls'[k] = calls[k]
          /\ \A k \in (Len(calls) + 1)..Len(calls') :
               \E i \in 1..Len(Batch) : Batch[i].id = calls'[k].id]_vars
  /\ [](/\ {calls[k].id : k \in 1..Len(calls)} \subseteq RequestIds
        /\ Cardinality({calls[k].id : k \in 1..Len(calls)}) = Len(calls)
        /\ Len(calls) <= Cardinality(RequestIds)
        /\ Len(messages) = 1 => calls = << >>)
  /\ [][(node \in {"__end__", "__error__"}) => calls' = calls]_vars

C20_Witness ==
  /\ node = "__end__"
  /\ Len(messages) = 6
  /\ Len(calls) = 2
  /\ calls[1].id = 1
  /\ calls[2].id = 2

\* The identifiers that a tool result of the conversation carries.
ResolvedIds ==
  {messages[k].tool_call_id : k \in {j \in 1..Len(messages) : messages[j].role = "tool"}}

\* C14: whenever the conversation holds a request without a result, whatever
\* becomes of the request (unknown name, rejected arguments, remote answer,
\* remote failure), the conversation eventually holds a tool result for
\* every request in it, provided every remote call returns or fails.
C14_EveryRequestResolved ==
  (RequestIds # ResolvedIds) ~> (RequestIds = ResolvedIds)

C14_Witness ==
  /\ Len(messages) = 4
  /\ messages[2].role = "assistant"
  /\ messages[3].content = ErrNotFound
  /\ messages[3].tool_call_id = 1
  /\ messages[4].content = ErrStatus
  /\ messages[4].tool_call_id = 2

\* Some remote call of the batch has not returned.
SomeInFlight == \E i \in DOMAIN tasks : tasks[i].state = "inflight"

\* C19: while the model invocation is in progress the only step is its
\* settling, and while a remote call of the batch is in flight the only
\* steps are settlings of calls in flight: the run stays in its node, is
\* neither ended nor failed, the conversation does not move and no model
\* invocation starts; there is no step that gives up waiting. When every
\* call returns and every invocation settles, the run ends or fails.
C19_WaitsWithoutTimeout ==
  /\ [][response.kind = "pending" =>
          /\ response'.kind \in {"resolved", "rejected"}
          /\ node' = node
          /\ messages' = messages
          /\ tasks' = tasks]_vars
  /\ [][SomeInFlight =>
          /\ node' = "tools"
          /\ messages' = messages
          /\ response' = response
          /\ invoking' = 0
          /\ DOMAIN tasks' = DOMAIN tasks
          /\ \A i \in DOMAIN tasks :
               \/ tasks'[i] = tasks[i]
               \/ tasks[i].state = "inflight" /\ tasks'[i].state = "done"]_vars
  /\ []((response.kind = "pending" \/ SomeInFlight) =>
          node \notin {"__end__", "__error__"})
  /\ <>(node \in {"__end__", "__error__"})

C19_Witness ==
  /\ node = "tools"
  /\ Len(messages) = 4
  /\ Len(tasks) = 1
  /\ tasks[1].state = "inflight"
  /\ messages[3].content = ErrNetwork

====
